---- MODULE Spec2Model ----
(***************************************************************************)
(* Research-Paper-Bot: the ingestion and retrieval pipeline, the services   *)
(* around it and the application script.                                   *)
(*                                                                         *)
(*   src/rag/ingest.py     PDFIngester   (extract, chunk, embed, store)    *)
(*   src/rag/pdf_processor_alt.py  AlternativePDFProcessor (extract)       *)
(*   src/rag/retriever.py  RAGRetriever  (the four read operations)        *)
(*   src/rag/chain.py      RAGChain      (prompting and citations)         *)
(*   src/services/auth_service.py  AuthService  (signup, login)            *)
(*   src/services/chat_service.py  ChatService  (the chat history)         *)
(*   src/app/main.py       main          (one run of the script per event) *)
(*                                                                         *)
(* A text is kept run-length encoded: a sequence of runs, each run being   *)
(* n equal characters c taken from offsets o .. o+n-1 of physical page p   *)
(* of the document.  The characters are "x" (any non-whitespace           *)
(* character), " " and "\n".  The page and offset say where a character    *)
(* came from, so that a chunk can be compared with the page it is said to  *)
(* belong to.                                                              *)
(***************************************************************************)
EXTENDS Integers, Sequences, FiniteSets, TLC

(***************************************************************************)
(* Program constants.                                                      *)
(***************************************************************************)
chunk_size == 1000
chunk_overlap == 200
batch_size == 50
separators == <<"\n\n", "\n", " ", "">>

(***************************************************************************)
(* Bounds of the model.                                                    *)
(***************************************************************************)
MaxPages == 2
MaxPapers == 2
MaxTopK == 3

Min(a, b) == IF a < b THEN a ELSE b

(***************************************************************************)
(* Strings as run sequences: len(), str.strip(), slicing, concatenation.   *)
(***************************************************************************)
RECURSIVE TextLen(_)
TextLen(t) == IF t = <<>> THEN 0 ELSE Head(t).n + TextLen(Tail(t))

IsSpace(r) == r.c \in {" ", "\n"}

RECURSIVE lstrip(_)
lstrip(t) ==
    IF t = <<>> THEN <<>>
    ELSE IF IsSpace(Head(t)) THEN lstrip(Tail(t)) ELSE t

RECURSIVE rstrip(_)
rstrip(t) ==
    IF t = <<>> THEN <<>>
    ELSE IF IsSpace(t[Len(t)]) THEN rstrip(SubSeq(t, 1, Len(t) - 1)) ELSE t

strip(t) == rstrip(lstrip(t))

\* two runs that are one run of the source text
Adjacent(a, b) == a.c = b.c /\ a.p = b.p /\ a.o + a.n = b.o

Cat(a, b) ==
    IF a = <<>> THEN b
    ELSE IF b = <<>> THEN a
    ELSE IF Adjacent(a[Len(a)], Head(b))
         THEN SubSeq(a, 1, Len(a) - 1)
              \o <<[a[Len(a)] EXCEPT !.n = a[Len(a)].n + Head(b).n]>>
              \o Tail(b)
         ELSE a \o b

RECURSIVE Join(_)
Join(docs) == IF docs = <<>> THEN <<>> ELSE Cat(Head(docs), Join(Tail(docs)))

\* position of the first character of run k in text t (1-based)
RECURSIVE RunStart(_, _)
RunStart(t, k) == IF k = 1 THEN 1 ELSE RunStart(t, k - 1) + t[k - 1].n

\* the characters i .. j of text t (1-based, inclusive): t[i-1:j] in Python
RECURSIVE Slice(_, _, _)
Slice(t, i, j) ==
    IF t = <<>> \/ j < i \/ j < 1 THEN <<>>
    ELSE LET r == Head(t)
         IN  IF i > r.n THEN Slice(Tail(t), i - r.n, j - r.n)
             ELSE LET lo == IF i < 1 THEN 1 ELSE i
                      hi == Min(j, r.n)
                      piece == [r EXCEPT !.o = r.o + lo - 1, !.n = hi - lo + 1]
                  IN  <<piece>> \o Slice(Tail(t), 1, j - r.n)

(***************************************************************************)
(* RecursiveCharacterTextSplitter(chunk_size, chunk_overlap, len,          *)
(* separators), keep_separator and strip_whitespace at their defaults.     *)
(***************************************************************************)
\* re.search(separator, text)
HasSeparator(t, sep) ==
    \E k \in 1..Len(t) :
        \/ sep = "\n\n" /\ t[k].c = "\n" /\ t[k].n >= 2
        \/ sep = "\n" /\ t[k].c = "\n"
        \/ sep = " " /\ t[k].c = " "

\* the positions at which re.split finds an occurrence of the separator:
\* leftmost, non-overlapping
CutPoints(t, sep) ==
    UNION { IF sep = "\n\n" /\ t[k].c = "\n"
              THEN { RunStart(t, k) + 2 * j : j \in 0..((t[k].n \div 2) - 1) }
            ELSE IF (sep = "\n" /\ t[k].c = "\n") \/ (sep = " " /\ t[k].c = " ")
              THEN { RunStart(t, k) + j : j \in 0..(t[k].n - 1) }
            ELSE {} : k \in 1..Len(t) }

\* a finite set of integers as an increasing sequence
RECURSIVE SortedSeq(_)
SortedSeq(S) ==
    IF S = {} THEN <<>>
    ELSE LET m == CHOOSE x \in S : \A y \in S : x <= y
         IN  <<m>> \o SortedSeq(S \ {m})

\* _split_text_with_regex(text, separator, keep_separator=True) for a
\* non-empty separator: the text is cut in front of every occurrence of the
\* separator, which stays at the start of the piece that follows it; empty
\* pieces are dropped
_split_text_with_regex(t, sep) ==
    LET cuts == SortedSeq(CutPoints(t, sep) \cup {1, TextLen(t) + 1})
        all == [k \in 1..(Len(cuts) - 1) |-> Slice(t, cuts[k], cuts[k + 1] - 1)]
    IN  SelectSeq(all, LAMBDA s : s # <<>>)

\* _join_docs: "".join(docs).strip(), None (here <<>>) when nothing is left
_join_docs(docs) == strip(Join(docs))

AppendDoc(docs, doc) == IF doc = <<>> THEN docs ELSE Append(docs, doc)

RECURSIVE SumLen(_)
SumLen(docs) == IF docs = <<>> THEN 0 ELSE TextLen(Head(docs)) + SumLen(Tail(docs))

\* the while loop of _merge_splits: pop from the front of current_doc while
\* it is longer than the overlap, or still too long to take the next split
RECURSIVE PopFront(_, _)
PopFront(current_doc, len) ==
    LET total == SumLen(current_doc)
    IN  IF total > chunk_overlap \/ (total + len > chunk_size /\ total > 0)
        THEN PopFront(Tail(current_doc), len)
        ELSE current_doc

\* _merge_splits(splits, separator="") from split k on
RECURSIVE MergeFrom(_, _, _, _)
MergeFrom(splits, k, docs, current_doc) ==
    IF k > Len(splits) THEN AppendDoc(docs, _join_docs(current_doc))
    ELSE LET d == splits[k]
             len == TextLen(d)
             total == SumLen(current_doc)
         IN  IF total + len > chunk_size /\ Len(current_doc) > 0
             THEN MergeFrom(splits, k + 1,
                            AppendDoc(docs, _join_docs(current_doc)),
                            Append(PopFront(current_doc, len), d))
             ELSE MergeFrom(splits, k + 1, docs, Append(current_doc, d))

_merge_splits(splits) == MergeFrom(splits, 1, <<>>, <<>>)

\* _merge_splits(list(text), ""): every split is one character, so the loop
\* emits a chunk each time current_doc holds chunk_size characters and keeps
\* the last chunk_overlap of them: window j starts chunk_size - chunk_overlap
\* characters after window j-1
_merge_chars(t) ==
    LET L == TextLen(t)
        step == chunk_size - chunk_overlap
        m == IF L <= chunk_size THEN 1
             ELSE 1 + ((L - chunk_size + step - 1) \div step)
        win == [j \in 1..m |->
                  _join_docs(<<Slice(t, (j - 1) * step + 1,
                                     Min(L, (j - 1) * step + chunk_size))>>)]
    IN  SelectSeq(win, LAMBDA s : s # <<>>)

\* index of the separator _split_text picks: the first that is "" or occurs
FirstSeparator(t, seps) ==
    IF \E i \in 1..Len(seps) : seps[i] = "" \/ HasSeparator(t, seps[i])
    THEN CHOOSE i \in 1..Len(seps) :
            /\ seps[i] = "" \/ HasSeparator(t, seps[i])
            /\ \A h \in 1..(i - 1) : ~(seps[h] = "" \/ HasSeparator(t, seps[h]))
    ELSE 0

RECURSIVE _split_text(_, _)
RECURSIVE SplitFrom(_, _, _, _, _)
\* the loop of _split_text over splits, from split k on
SplitFrom(splits, k, new_separators, good, final_chunks) ==
    IF k > Len(splits)
    THEN IF good # <<>> THEN final_chunks \o _merge_splits(good) ELSE final_chunks
    ELSE LET s == splits[k]
         IN  IF TextLen(s) < chunk_size
             THEN SplitFrom(splits, k + 1, new_separators, Append(good, s), final_chunks)
             ELSE LET flushed == IF good # <<>> THEN final_chunks \o _merge_splits(good)
                                 ELSE final_chunks
                      other == IF new_separators = <<>> THEN <<s>>
                               ELSE _split_text(s, new_separators)
                  IN  SplitFrom(splits, k + 1, new_separators, <<>>, flushed \o other)

_split_text(t, seps) ==
    LET i == FirstSeparator(t, seps)
        separator == IF i = 0 THEN seps[Len(seps)] ELSE seps[i]
        new_separators == IF i = 0 \/ separator = "" THEN <<>>
                          ELSE SubSeq(seps, i + 1, Len(seps))
    IN  IF separator = "" THEN _merge_chars(t)
        ELSE SplitFrom(_split_text_with_regex(t, separator), 1, new_separators, <<>>, <<>>)

\* a splitter that returns the text as one piece
split_text_Whole(t) == <<t>>

split_text(t) == _split_text(t, separators)

(***************************************************************************)
(* Documents.  A PDF is the sequence of the texts of its physical pages; a *)
(* page text is written as a list of <<character, count>> and MkText gives *)
(* every character its page and offset.                                    *)
(***************************************************************************)
RECURSIVE MkRuns(_, _, _)
MkRuns(p, shape, o) ==
    IF shape = <<>> THEN <<>>
    ELSE <<[c |-> Head(shape)[1], p |-> p, o |-> o, n |-> Head(shape)[2]]>>
         \o MkRuns(p, Tail(shape), o + Head(shape)[2])

MkText(p, shape) == MkRuns(p, shape, 1)

\* the page texts documents are made of
PageShapes ==
    { <<>>,                                                    \* no text at all
      << <<" ", 2>>, <<"\n", 1>> >>,                           \* whitespace only
      << <<"x", 300>> >>,                                      \* one short word
      << <<"x", 100>>, <<"\n", 2>>, <<"x", 98>>, <<" ", 1>>, <<"x", 99>> >>,
      << <<"\n", 1>>, <<"x", 30>>, <<" ", 1>>, <<"x", 40>>, <<" ", 2>> >>,
      << <<"x", 1500>> >>,                                     \* no separator
      << <<"x", 400>>, <<"\n", 2>>, <<"x", 700>>, <<"\n", 2>>, <<"x", 396>> >>,
      << <<"x", 500>>, <<"\n", 1>>, <<"x", 190>>, <<"\n", 1>>, <<"x", 400>>,
         <<" ", 1>>, <<"x", 407>> >>,
      << <<"x", 600>>, <<"\n", 3>>, <<"x", 1100>>, <<" ", 1>>, <<"x", 150>> >> }

PdfShapes == UNION { [1..n -> PageShapes] : n \in 0..MaxPages }

MkPdf(shapes) == [p \in 1..Len(shapes) |-> MkText(p, shapes[p])]

(***************************************************************************)
(* PDFIngester.extract_text_from_pdf and PDFIngester.chunk_text            *)
(***************************************************************************)
RECURSIVE ExtractFrom(_, _)
ExtractFrom(doc, page_num) ==
    IF page_num >= Len(doc) THEN <<>>
    ELSE LET text == doc[page_num + 1]
             rest == ExtractFrom(doc, page_num + 1)
         IN  IF strip(text) # <<>>
             THEN <<[page_number |-> page_num + 1, text |-> strip(text)]>> \o rest
             ELSE rest

extract_text_from_pdf(doc) == ExtractFrom(doc, 0)

\* AlternativePDFProcessor.extract_text_from_pdf: the loop over the pages of
\* pdfplumber runs inside a try; when pdfplumber raises on page fails_at
\* (0: it does not raise) the pages of PyPDF2 are appended to the list the
\* first loop has filled so far; when PyPDF2 raises as well the call raises
\* ValueError.  A page without text (None) is a page of empty text.
alt_extract_text_from_pdf(doc, fails_at, fallback_ok) ==
    IF fails_at = 0 THEN [pages |-> ExtractFrom(doc, 0), raised |-> FALSE]
    ELSE LET before == ExtractFrom(SubSeq(doc, 1, fails_at - 1), 0)
         IN  IF fallback_ok
             THEN [pages |-> before \o ExtractFrom(doc, 0), raised |-> FALSE]
             ELSE [pages |-> <<>>, raised |-> TRUE]

\* the inner loop of chunk_text: the chunks made of the pieces k, k+1, ... of
\* one page, the first of them getting chunk_index
RECURSIVE ChunkPage(_, _, _, _)
ChunkPage(page_chunks, k, page_number, chunk_index) ==
    IF k > Len(page_chunks) THEN <<>>
    ELSE IF strip(page_chunks[k]) # <<>>
         THEN <<[content |-> strip(page_chunks[k]),
                 page_number |-> page_number,
                 chunk_index |-> chunk_index]>>
              \o ChunkPage(page_chunks, k + 1, page_number, chunk_index + 1)
         ELSE ChunkPage(page_chunks, k + 1, page_number, chunk_index)

\* chunk_text with chunk_index starting again at 0 on every page
RECURSIVE ChunkPages_IndexPerPage(_, _, _)
ChunkPages_IndexPerPage(pages, k, chunk_index) ==
    IF k > Len(pages) THEN <<>>
    ELSE ChunkPage(split_text(pages[k].text), 1, pages[k].page_number, 0)
         \o ChunkPages_IndexPerPage(pages, k + 1, 0)

\* chunk_text with the splitter's overlap carried over the page boundary: the
\* last chunk_overlap characters of the page before are put in front of the
\* text of a page
RECURSIVE ChunkPages_OverlapAcrossPages(_, _, _)
ChunkPages_OverlapAcrossPages(pages, k, chunk_index) ==
    IF k > Len(pages) THEN <<>>
    ELSE LET before == IF k = 1 THEN <<>> ELSE pages[k - 1].text
             carried == Slice(before, TextLen(before) - chunk_overlap + 1, TextLen(before))
             here == ChunkPage(split_text(carried \o pages[k].text), 1,
                               pages[k].page_number, chunk_index)
         IN  here \o ChunkPages_OverlapAcrossPages(pages, k + 1, chunk_index + Len(here))

\* chunk_text walking the pages from the last to the first
RECURSIVE ChunkPages_LastPageFirst(_, _, _)
ChunkPages_LastPageFirst(pages, k, chunk_index) ==
    IF k > Len(pages) THEN <<>>
    ELSE LET page == pages[Len(pages) - k + 1]
             here == ChunkPage(split_text(page.text), 1, page.page_number, chunk_index)
         IN  here \o ChunkPages_LastPageFirst(pages, k + 1, chunk_index + Len(here))

\* the outer loop of chunk_text: the chunks of the pages k, k+1, ..., with
\* chunk_index carried over from the pages before
RECURSIVE ChunkPages(_, _, _)
ChunkPages(pages, k, chunk_index) ==
    IF k > Len(pages) THEN <<>>
    ELSE LET here == ChunkPage(split_text(pages[k].text), 1,
                               pages[k].page_number, chunk_index)
         IN  here \o ChunkPages(pages, k + 1, chunk_index + Len(here))

chunk_text(pages) == ChunkPages(pages, 1, 0)

(***************************************************************************)
(* State.                                                                  *)
(*   store     the objects of class PaperChunk in Weaviate, in insertion   *)
(*             order                                                       *)
(*   ingester  a PDFIngester has been constructed                          *)
(*   uuids     number of uuid4() values drawn so far (the next is uuids+1) *)
(*   ingested  the ingest_pdf calls made, in order: the paper_id each drew  *)
(*             and how it ended                                            *)
(*   res       the call made last and what it gave back to its caller      *)
(*   pdf, pages, chunks, pc   one run of extraction and chunking           *)
(*   cin, sources, cpc        one call of _extract_sources                 *)
(*   clients      number of Weaviate clients constructed for the class     *)
(*                PaperChunk (by RAGRetriever and by every PDFIngester)    *)
(*   schema_runs  number of runs of PDFIngester._create_schema             *)
(*   messages     the objects of class ChatMessage, in insertion order     *)
(*   use_firebase, fb_users   AuthService.use_firebase and the accounts of *)
(*                the Firebase project (email -> password)                 *)
(*   ret          the call of a service made last and what it gave back    *)
(*   session      st.session_state                                         *)
(*   uploaded_file  the file held by the file_uploader widget              *)
(*   last_login   the email of the last login that succeeded               *)
(*   last_loop    the pending-paper loop of the last question: the         *)
(*                paper_ids it ingested and the arxiv_ids it failed on     *)
(***************************************************************************)
VARIABLES store, ingester, uuids, ingested, res, pdf, pages, chunks, pc, cin, sources, cpc,
          clients, schema_runs, messages, use_firebase, fb_users, ret,
          session, uploaded_file, last_login, last_loop

sysVars == <<store, ingester, uuids, ingested, res>>
chunkVars == <<pdf, pages, chunks, pc>>
citeVars == <<cin, sources, cpc>>
wiringVars == <<clients, schema_runs>>
svcVars == <<messages, use_firebase, fb_users, ret>>
uiVars == <<session, uploaded_file, last_login, last_loop>>
appVars == <<clients, schema_runs, messages, use_firebase, fb_users, ret, session,
             uploaded_file, last_login, last_loop>>
vars == <<store, ingester, uuids, ingested, res, pdf, pages, chunks, pc, cin, sources, cpc,
          clients, schema_runs, messages, use_firebase, fb_users, ret,
          session, uploaded_file, last_login, last_loop>>

Users == {"u1", "u2"}
Personas == {"Student", "Professor", "General User", "Researcher"}
TopKs == 1..MaxTopK

\* file names (without ".pdf") as character sequences
Titles == { <<"A">>, <<"A", "_", "1">>, <<"B">> }

\* the files that are uploaded
Uploads ==
    { [name |-> <<"A", "_", "1">>,
       doc |-> MkPdf(<< << <<"x", 400>>, <<"\n", 2>>, <<"x", 700>>, <<"\n", 2>>, <<"x", 396>> >>,
                        << <<" ", 2>>, <<"\n", 1>> >>,
                        << <<"x", 300>> >> >>)],
      [name |-> <<"B">>, doc |-> MkPdf(<< << <<" ", 2>>, <<"\n", 1>> >> >>)] }

\* a long paper and a short one: 25 pages of 32200 characters without a
\* separator are 40 chunks each, 1000 chunks in all
LongUploads ==
    { [name |-> <<"A">>, doc |-> MkPdf([p \in 1..25 |-> << <<"x", 32200>> >>])],
      [name |-> <<"B">>, doc |-> MkPdf(<< << <<"x", 300>> >> >>)] }

\* the papers ArXiv knows: id, title and the PDF behind pdf_url, which
\* download_paper_pdf saves as arxiv_<id>.pdf
ArxivPapers ==
    { [id |-> "2301.00001v1", title |-> <<"T", "1">>,
       file |-> [name |-> <<"arxiv_", "2301.00001v1">>,
                 doc |-> MkPdf(<< << <<"x", 300>> >> >>)]],
      [id |-> "2301.00002v1", title |-> <<"T", "2">>,
       file |-> [name |-> <<"arxiv_", "2301.00002v1">>,
                 doc |-> MkPdf(<< << <<"x", 400>>, <<"\n", 2>>, <<"x", 700>> >> >>)]] }

ArxivFiles == { paper.file : paper \in ArxivPapers }

QueryTexts == { MkText(0, << <<"x", 5>> >>), MkText(0, << <<"x", 298>> >>) }

(***************************************************************************)
(* The embedding provider and the vector index.                            *)
(***************************************************************************)
\* embed_query: a fixed function of the text
Embed(t) == TextLen(t) % 7

Distance(v, w) == IF v < w THEN w - v ELSE v - w

\* a search without the where filter
WhereUser_Unfiltered(objs, u) == objs

\* where user_id Equal u
WhereUser(objs, u) == SelectSeq(objs, LAMBDA o : o.user_id = u)

\* the where filter of retrieve_by_paper_id without its user_id operand
WherePaperUser_PaperOnly(objs, p, u) == SelectSeq(objs, LAMBDA o : o.paper_id = p)

\* where paper_id Equal p And user_id Equal u
WherePaperUser(objs, p, u) == SelectSeq(objs, LAMBDA o : o.paper_id = p /\ o.user_id = u)

\* where paper_id Equal p
WherePaper(objs, p) == SelectSeq(objs, LAMBDA o : o.paper_id = p)

\* with_limit(n)
Limit(objs, n) == SubSeq(objs, 1, Min(n, Len(objs)))

\* with_near_vector(v).with_limit(n): the n objects nearest to v, nearest first
RECURSIVE NearVector(_, _, _)
NearVector(objs, v, n) ==
    IF n = 0 \/ objs = <<>> THEN <<>>
    ELSE LET i == CHOOSE i \in 1..Len(objs) :
                    /\ \A j \in 1..Len(objs) :
                          Distance(objs[i].vector, v) <= Distance(objs[j].vector, v)
                    /\ \A j \in 1..(i - 1) :
                          Distance(objs[j].vector, v) > Distance(objs[i].vector, v)
             rest == SubSeq(objs, 1, i - 1) \o SubSeq(objs, i + 1, Len(objs))
         IN  <<objs[i]>> \o NearVector(rest, v, n - 1)

(***************************************************************************)
(* PDFIngester: schema set-up, store_chunks, ingest_pdf.                   *)
(***************************************************************************)
\* _create_schema: delete_class("PaperChunk") drops the class together with
\* its objects; when the call fails the exception is swallowed and the class
\* stays as it is.  create_class then (re)creates the empty class, or fails
\* and is swallowed as well.
_create_schema(objs, delete_ok) == IF delete_ok THEN <<>> ELSE objs

\* what can go wrong inside store_chunks: the embedding provider fails on the
\* at-th embed_query call, or the store fails on the write of batch at
NoFault == [kind |-> "none", at |-> 0]
IngestFaults ==
    {NoFault}
    \cup { [kind |-> "embed", at |-> k] : k \in {1, 2} }
    \cup { [kind |-> "store", at |-> b] : b \in {1} }

data_object(chunk, paper_id, paper_title, user_id, upload_date) ==
    [content |-> chunk.content,
     paper_id |-> paper_id,
     paper_title |-> paper_title,
     page_number |-> chunk.page_number,
     chunk_index |-> chunk.chunk_index,
     user_id |-> user_id,
     upload_date |-> upload_date,
     vector |-> Embed(chunk.content)]

\* store_chunks with a failed embed_query call caught per chunk: the chunk is
\* left out and the loop goes on
RECURSIVE StoreFrom_SkipFailed(_, _, _, _, _, _, _, _)
StoreFrom_SkipFailed(objs, chs, i, paper_id, paper_title, user_id, upload_date, fault) ==
    IF i >= Len(chs)
    THEN [store |-> objs, raised |-> FALSE, n_embed |-> 0, failed_at |-> 0,
          n_batches |-> 0]
    ELSE LET batch_chunks == SubSeq(chs, i + 1, Min(i + batch_size, Len(chs)))
             embed_fails == fault.kind = "embed"
                            /\ fault.at \in (i + 1)..(i + Len(batch_chunks))
             kept == SelectSeq(batch_chunks,
                               LAMBDA c : ~(embed_fails /\ c = chs[fault.at]))
             added == [k \in 1..Len(kept) |->
                         data_object(kept[k], paper_id, paper_title,
                                     user_id, upload_date)]
             rest == StoreFrom_SkipFailed(objs \o added, chs, i + batch_size, paper_id,
                                          paper_title, user_id, upload_date, fault)
         IN  [rest EXCEPT !.n_embed = @ + Len(batch_chunks),
                          !.failed_at = IF embed_fails THEN fault.at ELSE @,
                          !.n_batches = @ + 1]

\* store_chunks from the batch that starts after chunk i.  Inside
\* "with self.client.batch" every chunk is embedded and added in turn; the
\* batch is written when the with-block is left, also when it is left by the
\* exception of a failed embed_query call.  n_embed counts the embed_query
\* calls issued, failed_at is the call that raised (0 when none did),
\* n_batches the batches written from this one on.
RECURSIVE StoreFrom(_, _, _, _, _, _, _, _)
StoreFrom(objs, chs, i, paper_id, paper_title, user_id, upload_date, fault) ==
    IF i >= Len(chs)
    THEN [store |-> objs, raised |-> FALSE, n_embed |-> 0, failed_at |-> 0,
          n_batches |-> 0]
    ELSE LET batch_chunks == SubSeq(chs, i + 1, Min(i + batch_size, Len(chs)))
             embed_fails == fault.kind = "embed"
                            /\ fault.at \in (i + 1)..(i + Len(batch_chunks))
             n_added == IF embed_fails THEN fault.at - i - 1 ELSE Len(batch_chunks)
             added == [k \in 1..n_added |->
                         data_object(batch_chunks[k], paper_id, paper_title,
                                     user_id, upload_date)]
             write_fails == fault.kind = "store" /\ fault.at = (i \div batch_size) + 1
             rest == StoreFrom(objs \o added, chs, i + batch_size, paper_id,
                               paper_title, user_id, upload_date, fault)
         IN  IF embed_fails
             THEN [store |-> objs \o added, raised |-> TRUE,
                   n_embed |-> n_added + 1, failed_at |-> fault.at,
                   n_batches |-> 1]
             ELSE IF write_fails
             THEN [store |-> objs, raised |-> TRUE,
                   n_embed |-> Len(batch_chunks), failed_at |-> 0,
                   n_batches |-> 0]
             ELSE [rest EXCEPT !.n_embed = @ + Len(batch_chunks),
                               !.n_batches = @ + 1]

\* store_chunks with every batch written a second time when the call returns
store_chunks_WrittenTwice(objs, chs, paper_id, paper_title, user_id, upload_date, fault) ==
    LET r == StoreFrom(objs, chs, 0, paper_id, paper_title, user_id, upload_date, fault)
    IN  [r EXCEPT !.store = r.store \o SubSeq(r.store, Len(objs) + 1, Len(r.store))]

store_chunks(objs, chs, paper_id, paper_title, user_id, upload_date, fault) ==
    StoreFrom(objs, chs, 0, paper_id, paper_title, user_id, upload_date, fault)

\* extract_text_from_pdf and chunk_text applied to the uploaded files (they
\* depend on the file only)
ExtractedPages ==
    [file \in Uploads \cup LongUploads \cup ArxivFiles |->
        extract_text_from_pdf(file.doc)]

ChunkedPages ==
    [file \in Uploads \cup LongUploads \cup ArxivFiles |->
        chunk_text(ExtractedPages[file])]

\* ingest_pdf without the two checks for an empty result
ingest_pdf_NoEmptyCheck(objs, file, user_id, paper_id, upload_date, fault) ==
    LET pgs == ExtractedPages[file]
        chs == ChunkedPages[file]
        stored == store_chunks(objs, chs, paper_id, file.name, user_id, upload_date, fault)
    IN  [store |-> stored.store, raised |-> stored.raised,
         n_pages |-> Len(pgs), n_chunks |-> Len(chs),
         n_embed |-> stored.n_embed, failed_at |-> stored.failed_at,
         n_batches |-> stored.n_batches]

\* ingest_pdf: paper_id is the uuid drawn for this call, paper_title the file
\* name without its extension
ingest_pdf(objs, file, user_id, paper_id, upload_date, fault) ==
    LET pgs == ExtractedPages[file]
        chs == ChunkedPages[file]
        stored == store_chunks(objs, chs, paper_id, file.name, user_id, upload_date, fault)
    IN  IF pgs = <<>> \/ chs = <<>>
        THEN [store |-> objs, raised |-> TRUE,
              n_pages |-> Len(pgs), n_chunks |-> Len(chs),
              n_embed |-> 0, failed_at |-> 0, n_batches |-> 0]
        ELSE [store |-> stored.store, raised |-> stored.raised,
              n_pages |-> Len(pgs), n_chunks |-> Len(chs),
              n_embed |-> stored.n_embed, failed_at |-> stored.failed_at,
              n_batches |-> stored.n_batches]

\* uuid4() giving again the value it gave last
uuid4_Reused(drawn) == IF drawn = 0 THEN 1 ELSE drawn

\* str(uuid.uuid4()): a value not drawn before, here the ordinal of the draw
uuid4(drawn) == drawn + 1

\* what a call was given (user_id, paper_id, top_k, persona) and what it gave
\* back; prompt is the key of the persona_prompts block the prompt starts with
Result(op, user_id, paper_id, top_k, raised, out, llm, prompt, answer, srcs, persona) ==
    [op |-> op, user_id |-> user_id, paper_id |-> paper_id, top_k |-> top_k,
     raised |-> raised, out |-> out, llm |-> llm, prompt |-> prompt,
     answer |-> answer, sources |-> srcs, persona |-> persona]

NoResult == Result("none", "", 0, 0, FALSE, <<>>, FALSE, "", "", <<>>, "")

\* any(p.get('filename') == uploaded_file.name for p in user_papers)
InLibrary(user_papers, file) ==
    \E i \in 1..Len(user_papers) : user_papers[i].filename = file.name

\* the upload branch of main(): a new PDFIngester is constructed, then
\* ingest_pdf runs; the time of the upload is the ordinal of the ingestion
Upload(u, file, delete_ok, fault) ==
    /\ uuids < MaxPapers
    /\ \E paper_id \in {uuid4(uuids)} :
       \E r \in {ingest_pdf(_create_schema(store, delete_ok), file, u, paper_id,
                            uuids + 1, fault)} :
          /\ store' = r.store
          /\ ingested' = Append(ingested,
                                [paper_id |-> paper_id, raised |-> r.raised,
                                 n_pages |-> r.n_pages, n_chunks |-> r.n_chunks,
                                 n_embed |-> r.n_embed, failed_at |-> r.failed_at,
                                 n_batches |-> r.n_batches,
                                 in_library |-> InLibrary(session.user_papers, file)])
          /\ res' = Result("ingest_pdf", u, IF r.raised THEN 0 ELSE paper_id, 0,
                           r.raised, <<>>, FALSE, "", "", <<>>, "")
    /\ ingester' = TRUE
    /\ uuids' = uuids + 1
    /\ clients' = clients + 1
    /\ schema_runs' = schema_runs + 1
    /\ UNCHANGED <<chunkVars, citeVars, svcVars, uiVars>>

(***************************************************************************)
(* RAGRetriever: the read operations.  backend_ok says whether the         *)
(* embedding provider and the vector store answer; when one of them raises *)
(* the read catches the exception and returns [].                          *)
(***************************************************************************)
WithDistance(objs, v) ==
    [i \in 1..Len(objs) |->
        [content |-> objs[i].content, paper_id |-> objs[i].paper_id,
         paper_title |-> objs[i].paper_title, page_number |-> objs[i].page_number,
         chunk_index |-> objs[i].chunk_index,
         distance |-> Distance(objs[i].vector, v), user_id |-> objs[i].user_id]]

WithoutDistance(objs) ==
    [i \in 1..Len(objs) |->
        [content |-> objs[i].content, paper_id |-> objs[i].paper_id,
         paper_title |-> objs[i].paper_title, page_number |-> objs[i].page_number,
         chunk_index |-> objs[i].chunk_index, user_id |-> objs[i].user_id]]

retrieve_relevant_chunks(objs, query, user_id, top_k, backend_ok) ==
    IF ~backend_ok THEN <<>>
    ELSE WithDistance(NearVector(WhereUser(objs, user_id), Embed(query), top_k),
                      Embed(query))

search_similar_chunks(objs, chunk_content, user_id, top_k, backend_ok) ==
    IF ~backend_ok THEN <<>>
    ELSE WithDistance(NearVector(WhereUser(objs, user_id), Embed(chunk_content), top_k),
                      Embed(chunk_content))

retrieve_by_paper_id(objs, paper_id, user_id, top_k, backend_ok) ==
    IF ~backend_ok THEN <<>>
    ELSE WithoutDistance(Limit(WherePaperUser(objs, paper_id, user_id), top_k))

\* the loop of get_user_papers without seen_papers: a paper for every chunk
DistinctPapers_NoDedup(items, seen_papers) ==
    [k \in 1..Len(items) |->
        [paper_id |-> items[k].paper_id,
         paper_title |-> items[k].paper_title,
         upload_date |-> items[k].upload_date]]

\* the loop of get_user_papers over the scanned chunks: the papers appended
\* while the loop runs over items, seen_papers being the set it starts with.
\* A run over several items is the run over their first half followed by the
\* run over the rest with the papers of the first half seen.
RECURSIVE DistinctPapers(_, _)
DistinctPapers(items, seen_papers) ==
    IF items = <<>> THEN <<>>
    ELSE IF Len(items) = 1
    THEN LET item == items[1]
         IN  IF item.paper_id \notin seen_papers
             THEN <<[paper_id |-> item.paper_id,
                     paper_title |-> item.paper_title,
                     upload_date |-> item.upload_date]>>
             ELSE <<>>
    ELSE LET half == Len(items) \div 2
             papers == DistinctPapers(SubSeq(items, 1, half), seen_papers)
         IN  papers \o DistinctPapers(SubSeq(items, half + 1, Len(items)),
                                      seen_papers
                                      \cup { papers[k].paper_id : k \in 1..Len(papers) })

scan_limit == 1000

get_user_papers(objs, user_id, backend_ok) ==
    IF ~backend_ok THEN <<>>
    ELSE DistinctPapers(Limit(WhereUser(objs, user_id), scan_limit), {})

\* PDFIngester.get_paper_info: None is <<>>, a hit is a one-element list
get_paper_info(objs, paper_id) ==
    LET hit == Limit(WherePaper(objs, paper_id), 1)
    IN  [i \in 1..Len(hit) |->
            [paper_title |-> hit[i].paper_title, user_id |-> hit[i].user_id,
             upload_date |-> hit[i].upload_date]]

RetrieveRelevant(q, u, k, backend_ok) ==
    /\ res' = Result("retrieve_relevant_chunks", u, 0, k, ~backend_ok,
                     retrieve_relevant_chunks(store, q, u, k, backend_ok),
                     FALSE, "", "", <<>>, "")
    /\ UNCHANGED <<store, ingester, uuids, ingested, pdf, pages, chunks, pc, cin, sources,
                   cpc, clients, schema_runs, messages, use_firebase, fb_users, ret,
                   session, uploaded_file, last_login, last_loop>>

SearchSimilar(q, u, k, backend_ok) ==
    /\ res' = Result("search_similar_chunks", u, 0, k, ~backend_ok,
                     search_similar_chunks(store, q, u, k, backend_ok),
                     FALSE, "", "", <<>>, "")
    /\ UNCHANGED <<store, ingester, uuids, ingested, pdf, pages, chunks, pc, cin, sources,
                   cpc, clients, schema_runs, messages, use_firebase, fb_users, ret,
                   session, uploaded_file, last_login, last_loop>>

RetrieveByPaper(p, u, k, backend_ok) ==
    /\ res' = Result("retrieve_by_paper_id", u, p, k, ~backend_ok,
                     retrieve_by_paper_id(store, p, u, k, backend_ok),
                     FALSE, "", "", <<>>, "")
    /\ UNCHANGED <<store, ingester, uuids, ingested, pdf, pages, chunks, pc, cin, sources,
                   cpc, clients, schema_runs, messages, use_firebase, fb_users, ret,
                   session, uploaded_file, last_login, last_loop>>

\* get_user_papers run through a newly constructed PDFIngester, whose
\* _create_schema drops the class
GetUserPapers_ViaIngester(u, backend_ok) ==
    /\ res' = Result("get_user_papers", u, 0, 0, ~backend_ok,
                     get_user_papers(store, u, backend_ok), FALSE, "", "", <<>>, "")
    /\ store' = _create_schema(store, TRUE)
    /\ UNCHANGED <<ingester, uuids, ingested, chunkVars, citeVars, appVars>>

GetUserPapers(u, backend_ok) ==
    /\ res' = Result("get_user_papers", u, 0, 0, ~backend_ok,
                     get_user_papers(store, u, backend_ok), FALSE, "", "", <<>>, "")
    /\ UNCHANGED <<store, ingester, uuids, ingested, pdf, pages, chunks, pc, cin, sources,
                   cpc, clients, schema_runs, messages, use_firebase, fb_users, ret,
                   session, uploaded_file, last_login, last_loop>>

\* get_paper_info is a method of the ingester; u is the user it is called for
GetPaperInfo(p, u) ==
    /\ ingester
    /\ res' = Result("get_paper_info", u, p, 0, FALSE, get_paper_info(store, p),
                     FALSE, "", "", <<>>, "")
    /\ UNCHANGED <<store, ingester, uuids, ingested, pdf, pages, chunks, pc, cin, sources,
                   cpc, clients, schema_runs, messages, use_firebase, fb_users, ret,
                   session, uploaded_file, last_login, last_loop>>

(***************************************************************************)
(* RAGChain: citations and the three generation calls.                     *)
(***************************************************************************)
DigitChars == <<"0", "1", "2", "3", "4", "5", "6", "7", "8", "9">>

\* str(n) for n >= 0, as a character sequence
RECURSIVE IntToStr(_)
IntToStr(n) ==
    IF n < 10 THEN <<DigitChars[n + 1]>>
    ELSE IntToStr(n \div 10) \o <<DigitChars[(n % 10) + 1]>>

\* a key made of the title alone
source_key_TitleOnly(chunk) == chunk.paper_title

\* f"{chunk['paper_title']}_{chunk['page_number']}"
source_key(chunk) == chunk.paper_title \o <<"_">> \o IntToStr(chunk.page_number)

RECURSIVE ExtractSourcesFrom(_, _)
ExtractSourcesFrom(chs, seen_sources) ==
    IF chs = <<>> THEN <<>>
    ELSE LET chunk == Head(chs)
         IN  IF source_key(chunk) \notin seen_sources
             THEN <<[paper |-> chunk.paper_title, page |-> chunk.page_number]>>
                  \o ExtractSourcesFrom(Tail(chs), seen_sources \cup {source_key(chunk)})
             ELSE ExtractSourcesFrom(Tail(chs), seen_sources)

_extract_sources(chs) == ExtractSourcesFrom(chs, {})

\* persona_prompts.get with the Student block as its default
persona_prompts_DefaultStudent(persona) ==
    IF persona \in {"Student", "Professor", "General User"} THEN persona
    ELSE "Student"

\* self.persona_prompts.get(persona, self.persona_prompts["General User"]):
\* the instruction block is named by its key
persona_prompts(persona) ==
    IF persona \in {"Student", "Professor", "General User"} THEN persona
    ELSE "General User"

response_top_k == 5
summary_top_k == 20
comparison_top_k == 10

\* what happens to the backends during a generate_ call
Scenarios == {"ok", "retrieval_fails", "llm_fails"}

\* the generate_ calls without the check for an empty retrieval
Generate_NoShortCircuit(op, user_id, paper_id, top_k, retrieved, persona, sentinel, scenario) ==
    IF scenario # "llm_fails"
    THEN Result(op, user_id, paper_id, top_k, FALSE, retrieved,
                TRUE, persona_prompts(persona), "llm", _extract_sources(retrieved), persona)
    ELSE Result(op, user_id, paper_id, top_k, TRUE, retrieved,
                TRUE, persona_prompts(persona), "error", <<>>, persona)

\* the generate_ calls with the sources extracted before the LLM is invoked
\* and returned by the except branch as well
Generate_CitesOnError(op, user_id, paper_id, top_k, retrieved, persona, sentinel, scenario) ==
    IF retrieved = <<>>
    THEN Result(op, user_id, paper_id, top_k, scenario = "retrieval_fails", retrieved,
                FALSE, "", sentinel, <<>>, persona)
    ELSE IF scenario # "llm_fails"
    THEN Result(op, user_id, paper_id, top_k, FALSE, retrieved,
                TRUE, persona_prompts(persona), "llm", _extract_sources(retrieved), persona)
    ELSE Result(op, user_id, paper_id, top_k, TRUE, retrieved,
                TRUE, persona_prompts(persona), "error", _extract_sources(retrieved), persona)

\* the part the three generate_ calls share once chunks are retrieved:
\* the sentinel answer when there are none, otherwise the prompt is built and
\* the LLM invoked; an exception of the LLM gives the error answer
Generate(op, user_id, paper_id, top_k, retrieved, persona, sentinel, scenario) ==
    IF retrieved = <<>>
    THEN Result(op, user_id, paper_id, top_k, scenario = "retrieval_fails", retrieved,
                FALSE, "", sentinel, <<>>, persona)
    ELSE IF scenario # "llm_fails"
    THEN Result(op, user_id, paper_id, top_k, FALSE, retrieved,
                TRUE, persona_prompts(persona), "llm", _extract_sources(retrieved), persona)
    ELSE Result(op, user_id, paper_id, top_k, TRUE, retrieved,
                TRUE, persona_prompts(persona), "error", <<>>, persona)

generate_response(objs, query, persona, user_id, scenario) ==
    Generate("generate_response", user_id, 0, response_top_k,
             retrieve_relevant_chunks(objs, query, user_id, response_top_k,
                                      scenario # "retrieval_fails"),
             persona, "no_relevant_information", scenario)

generate_summary(objs, paper_id, user_id, persona, scenario) ==
    Generate("generate_summary", user_id, paper_id, summary_top_k,
             retrieve_by_paper_id(objs, paper_id, user_id, summary_top_k,
                                  scenario # "retrieval_fails"),
             persona, "paper_not_found", scenario)

generate_comparison(objs, query, user_id, persona, scenario) ==
    Generate("generate_comparison", user_id, 0, comparison_top_k,
             retrieve_relevant_chunks(objs, query, user_id, comparison_top_k,
                                      scenario # "retrieval_fails"),
             persona, "no_information_for_comparison", scenario)

GenerateResponse(q, persona, u, scenario) ==
    /\ res' = generate_response(store, q, persona, u, scenario)
    /\ UNCHANGED <<store, ingester, uuids, ingested, pdf, pages, chunks, pc, cin, sources,
                   cpc, clients, schema_runs, messages, use_firebase, fb_users, ret,
                   session, uploaded_file, last_login, last_loop>>

GenerateSummary(p, u, persona, scenario) ==
    /\ res' = generate_summary(store, p, u, persona, scenario)
    /\ UNCHANGED <<store, ingester, uuids, ingested, pdf, pages, chunks, pc, cin, sources,
                   cpc, clients, schema_runs, messages, use_firebase, fb_users, ret,
                   session, uploaded_file, last_login, last_loop>>

GenerateComparison(q, u, persona, scenario) ==
    /\ res' = generate_comparison(store, q, u, persona, scenario)
    /\ UNCHANGED <<store, ingester, uuids, ingested, pdf, pages, chunks, pc, cin, sources,
                   cpc, clients, schema_runs, messages, use_firebase, fb_users, ret,
                   session, uploaded_file, last_login, last_loop>>

(***************************************************************************)
(* AuthService and ChatService.  None is the empty string, which the code  *)
(* treats like None wherever it tests a value for truth.                   *)
(***************************************************************************)
None == ""

Emails == Users
Passwords == {"pw1", "pw2"}

\* the Firebase project without an account
NoUsers == [email \in {} |-> None]

\* what a service call was given and what it gave back
Ret(op, user_id, conversation_id, password, value, out, raised) ==
    [op |-> op, user_id |-> user_id, conversation_id |-> conversation_id,
     password |-> password, value |-> value, out |-> out, raised |-> raised]

NoRet == Ret("none", None, None, None, FALSE, <<>>, FALSE)

\* AuthService.signup.  With Firebase, auth.create_user adds the account
\* unless the email has one already or the service fails, and any exception
\* gives False.  Without Firebase the call reads self._simple_auth, an
\* attribute that AuthService never sets (the SimpleAuthService object is the
\* module-level name _simple_auth), so it raises AttributeError.
signup(firebase, users, email, password, backend_ok) ==
    IF firebase
    THEN IF backend_ok /\ email \notin DOMAIN users
         THEN [users |-> (email :> password) @@ users, value |-> TRUE, raised |-> FALSE]
         ELSE [users |-> users, value |-> FALSE, raised |-> FALSE]
    ELSE [users |-> users, value |-> FALSE, raised |-> TRUE]

\* AuthService.login.  With Firebase, the accounts are listed and True is
\* returned for the first whose email is the one given; the password is not
\* looked at.  Without Firebase the call raises like signup.
login(firebase, users, email, password, backend_ok) ==
    IF firebase
    THEN [value |-> backend_ok /\ email \in DOMAIN users, raised |-> FALSE]
    ELSE [value |-> FALSE, raised |-> TRUE]

\* f"conv_{user_id}_{now}", now being the time of the call to the second
new_conversation_id(user_id, now) == "conv_" \o user_id \o "_" \o ToString(now)

\* ChatService.save_message: the id of the object created, here TRUE, or None
\* (FALSE) when the store raises.  A message given no conversation_id gets a
\* new one.  The timestamp is the ordinal of the message.
save_message(msgs, user_id, user_message, assistant_message, persona, srcs, conversation_id, now, backend_ok) ==
    IF ~backend_ok THEN [messages |-> msgs, value |-> FALSE]
    ELSE [messages |->
            Append(msgs,
                   [user_id |-> user_id,
                    user_message |-> user_message,
                    assistant_message |-> assistant_message,
                    persona |-> persona,
                    sources |-> srcs,
                    timestamp |-> now,
                    conversation_id |->
                        IF conversation_id = None
                        THEN new_conversation_id(user_id, now)
                        ELSE conversation_id]),
          value |-> TRUE]

\* where conversation_id Equal c And user_id Equal u
WhereConversation(msgs, c, u) ==
    SelectSeq(msgs, LAMBDA m : m.conversation_id = c /\ m.user_id = u)

\* ChatService.get_conversation: sorted by timestamp, which is the order of
\* insertion; [] when the store raises
get_conversation(msgs, conversation_id, user_id, backend_ok) ==
    IF ~backend_ok THEN <<>> ELSE WhereConversation(msgs, conversation_id, user_id)

\* ChatService.delete_conversation: the messages of the conversation are
\* read, the loop over them does nothing (its body is pass), True is returned
delete_conversation(msgs, conversation_id, user_id, backend_ok) ==
    LET found == get_conversation(msgs, conversation_id, user_id, backend_ok)
    IN  [messages |-> msgs, value |-> TRUE, n_found |-> Len(found)]

MaxMessages == 2

SaveMessage(u, text, conversation_id, backend_ok) ==
    /\ Len(messages) < MaxMessages
    /\ \E r \in {save_message(messages, u, text, "llm", "Student", <<>>,
                              conversation_id, Len(messages) + 1, backend_ok)} :
          /\ messages' = r.messages
          /\ ret' = Ret("save_message", u, conversation_id, None, r.value, <<>>, FALSE)
    /\ UNCHANGED <<sysVars, chunkVars, citeVars, wiringVars, use_firebase, fb_users, uiVars>>

GetConversation(conversation_id, u, backend_ok) ==
    /\ ret' = Ret("get_conversation", u, conversation_id, None, TRUE,
                  get_conversation(messages, conversation_id, u, backend_ok), FALSE)
    /\ UNCHANGED <<sysVars, chunkVars, citeVars, wiringVars, messages, use_firebase,
                   fb_users, uiVars>>

DeleteConversation(conversation_id, u, backend_ok) ==
    /\ \E r \in {delete_conversation(messages, conversation_id, u, backend_ok)} :
          /\ messages' = r.messages
          /\ ret' = Ret("delete_conversation", u, conversation_id, None, r.value,
                        <<>>, FALSE)
    /\ UNCHANGED <<sysVars, chunkVars, citeVars, wiringVars, use_firebase, fb_users, uiVars>>

(***************************************************************************)
(* st.session_state and the widgets of main().                             *)
(***************************************************************************)
\* DEFAULT_SESSION_KEYS (show_success_messages is never read); arxiv_results
\* None is the empty list
DefaultSession ==
    [user_papers |-> <<>>,
     authenticated |-> FALSE,
     user_id |-> None,
     chat_history |-> <<>>,
     arxiv_results |-> <<>>]

\* the file_uploader holds no file
NoFile == [name |-> <<>>, doc |-> <<>>]

\* what the last pending-paper loop did: the paper_ids it ingested, the
\* arxiv_ids it left pending, and the paper_ids of the user's chunks that
\* were in the store when generate_response was called
NoLoop == [processed |-> <<>>, failed |-> {}, stored |-> {}]

\* init_services has run (RAGRetriever has constructed its client), nobody
\* has signed up, logged in or chatted
AppIdle ==
    /\ clients = 1
    /\ schema_runs = 0
    /\ messages = <<>>
    /\ fb_users = NoUsers
    /\ ret = NoRet
    /\ session = DefaultSession
    /\ uploaded_file = NoFile
    /\ last_login = None
    /\ last_loop = NoLoop

(***************************************************************************)
(* main().  Streamlit runs the script from top to bottom once for every    *)
(* event (a button pressed, a file chosen, a question sent); an action is  *)
(* one such run.  A run in which the user is authenticated goes through    *)
(* the upload branch whatever the event was, because the file_uploader     *)
(* keeps its file from run to run.                                         *)
(***************************************************************************)
\* paper_info of Add to Library; a key the dictionary does not have (here
\* filename) reads as None, the empty name
paper_info_arxiv(paper) ==
    [paper_id |-> paper.id,
     title |-> paper.title,
     source |-> "ArXiv",
     arxiv_id |-> paper.id,
     pdf_url |-> paper.id,
     filename |-> <<>>,
     needs_processing |-> TRUE]

\* paper_info of the upload branch
paper_info_upload(paper_id, file) ==
    [paper_id |-> paper_id,
     title |-> file.name,
     source |-> "Uploaded File",
     arxiv_id |-> None,
     pdf_url |-> None,
     filename |-> file.name,
     needs_processing |-> FALSE]

\* the PDF that download_paper_pdf fetches from pdf_url
FileAt(pdf_url) == (CHOOSE paper \in ArxivPapers : paper.id = pdf_url).file

\* what a run works on: the library and the state behind PDFIngester,
\* together with what the pending-paper loop has done so far
World(user_papers) ==
    [user_papers |-> user_papers,
     store |-> store,
     ingested |-> ingested,
     uuids |-> uuids,
     clients |-> clients,
     schema_runs |-> schema_runs,
     processed |-> <<>>,
     failed |-> {}]

\* PDFIngester(): __init__ constructs a Weaviate client and runs
\* _create_schema
PDFIngester(w, delete_ok) ==
    [w EXCEPT !.clients = @ + 1,
              !.schema_runs = @ + 1,
              !.store = _create_schema(@, delete_ok)]

\* ingester.ingest_pdf(path, user_id) on the world w
IngestCall(w, file, user_id, fault) ==
    LET Done(paper_id, r) ==
            [world |->
                [w EXCEPT !.store = r.store,
                          !.uuids = @ + 1,
                          !.ingested =
                              Append(@, [paper_id |-> paper_id, raised |-> r.raised,
                                         n_pages |-> r.n_pages, n_chunks |-> r.n_chunks,
                                         n_embed |-> r.n_embed, failed_at |-> r.failed_at,
                                         n_batches |-> r.n_batches,
                                         in_library |-> InLibrary(w.user_papers, file)])],
             raised |-> r.raised,
             paper_id |-> paper_id]
    IN  Done(uuid4(w.uuids),
             ingest_pdf(w.store, file, user_id, uuid4(w.uuids), w.uuids + 1, fault))

\* the upload branch without the check for a file that is in the library
upload_branch_NoCheck(w, file, user_id, delete_ok, fault) ==
    IF file = NoFile THEN w
    ELSE LET Added(c) ==
                 IF c.raised THEN c.world
                 ELSE [c.world EXCEPT
                          !.user_papers = Append(@, paper_info_upload(c.paper_id, file))]
         IN  Added(IngestCall(PDFIngester(w, delete_ok), file, user_id, fault))

\* the upload branch: a file that is not in the library is ingested by a new
\* PDFIngester and, when ingest_pdf returns, appended to the library; an
\* exception of ingest_pdf is caught and reported
upload_branch(w, file, user_id, delete_ok, fault) ==
    IF file = NoFile \/ InLibrary(w.user_papers, file) THEN w
    ELSE LET Added(c) ==
                 IF c.raised THEN c.world
                 ELSE [c.world EXCEPT
                          !.user_papers = Append(@, paper_info_upload(c.paper_id, file))]
         IN  Added(IngestCall(PDFIngester(w, delete_ok), file, user_id, fault))

\* what happens to a pending paper in the loop
Outcomes == {"ok", "no_download", "ingest_fails"}

\* the loop over papers_to_process, from library entry k on: the paper is
\* downloaded, ingested by a new PDFIngester and marked as processed; when
\* the download gives None or ingest_pdf raises, the paper stays as it is
RECURSIVE ProcessPending(_, _, _, _, _)
ProcessPending(w, k, user_id, delete_ok, outcome) ==
    IF k > Len(w.user_papers) THEN w
    ELSE IF ~w.user_papers[k].needs_processing
    THEN ProcessPending(w, k + 1, user_id, delete_ok, outcome)
    ELSE LET paper == w.user_papers[k]
             Done(c) ==
                 IF c.raised
                 THEN [c.world EXCEPT !.failed = @ \cup {paper.arxiv_id}]
                 ELSE [c.world EXCEPT !.user_papers[k].paper_id = c.paper_id,
                                      !.user_papers[k].needs_processing = FALSE,
                                      !.processed = Append(@, c.paper_id)]
         IN  IF outcome[paper.arxiv_id] = "no_download"
             THEN ProcessPending([w EXCEPT !.failed = @ \cup {paper.arxiv_id}],
                                 k + 1, user_id, delete_ok, outcome)
             ELSE ProcessPending(
                      Done(IngestCall(PDFIngester(w, delete_ok), FileAt(paper.pdf_url),
                                      user_id,
                                      IF outcome[paper.arxiv_id] = "ingest_fails"
                                      THEN [kind |-> "embed", at |-> 1]
                                      ELSE NoFault)),
                      k + 1, user_id, delete_ok, outcome)

\* the paper_ids of the chunks of user_id in the store
StoredPapers(objs, user_id) ==
    { objs[i].paper_id : i \in { i \in 1..Len(objs) : objs[i].user_id = user_id } }

\* the arxiv_ids of the papers that are pending
PendingIds(user_papers) ==
    { user_papers[i].arxiv_id :
        i \in { i \in 1..Len(user_papers) : user_papers[i].needs_processing } }

\* list.pop(i - 1)
Pop(list, i) == SubSeq(list, 1, i - 1) \o SubSeq(list, i + 1, Len(list))

\* what can happen to the ingestion of the upload branch
UploadEnvs(user_papers, file) ==
    IF file = NoFile \/ InLibrary(user_papers, file)
    THEN {[delete_ok |-> TRUE, fault |-> NoFault]}
    ELSE [delete_ok : BOOLEAN, fault : {NoFault}]

\* the state behind PDFIngester after a run
Commit(w) ==
    /\ w.uuids <= MaxPapers
    /\ store' = w.store
    /\ ingested' = w.ingested
    /\ uuids' = w.uuids
    /\ clients' = w.clients
    /\ schema_runs' = w.schema_runs
    /\ ingester' = (ingester \/ w.clients > clients)

\* Sign Up pressed
RunSignup(new_email, new_password, confirm_password, backend_ok) ==
    /\ ~session.authenticated
    /\ new_password = confirm_password
    /\ \E r \in {signup(use_firebase, fb_users, new_email, new_password, backend_ok)} :
          /\ fb_users' = r.users
          /\ ret' = Ret("signup", new_email, None, new_password, r.value, <<>>, r.raised)
    /\ UNCHANGED <<sysVars, chunkVars, citeVars, wiringVars, messages, use_firebase, uiVars>>

\* Login pressed: when login raises the run ends there
RunLogin(email, password, backend_ok) ==
    /\ ~session.authenticated
    /\ \E r \in {login(use_firebase, fb_users, email, password, backend_ok)} :
          /\ ret' = Ret("login", email, None, password, r.value, <<>>, r.raised)
          /\ session' = IF r.value
                        THEN [session EXCEPT !.authenticated = TRUE, !.user_id = email]
                        ELSE session
          /\ last_login' = IF r.value THEN email ELSE last_login
    /\ UNCHANGED <<sysVars, chunkVars, citeVars, wiringVars, messages, use_firebase,
                   fb_users, uploaded_file, last_loop>>

\* Logout pressed without user_id being reset
RunLogout_KeepUser ==
    /\ session.authenticated
    /\ session' = [session EXCEPT !.authenticated = FALSE,
                                  !.chat_history = <<>>,
                                  !.user_papers = <<>>,
                                  !.arxiv_results = <<>>]
    /\ uploaded_file' = NoFile
    /\ UNCHANGED <<sysVars, chunkVars, citeVars, wiringVars, svcVars, last_login, last_loop>>

\* Logout pressed; the main content, and with it the file_uploader, is not
\* rendered in this run
RunLogout ==
    /\ session.authenticated
    /\ session' = [session EXCEPT !.authenticated = FALSE,
                                  !.user_id = None,
                                  !.chat_history = <<>>,
                                  !.user_papers = <<>>,
                                  !.arxiv_results = <<>>]
    /\ uploaded_file' = NoFile
    /\ UNCHANGED <<sysVars, chunkVars, citeVars, wiringVars, svcVars, last_login, last_loop>>

\* a run of an authenticated user without a question: the event has made
\* the library user_papers and the search results arxiv_results, the
\* file_uploader holds file, and the upload branch runs
Rerun(user_papers, arxiv_results, file) ==
    /\ session.authenticated
    /\ \E env \in UploadEnvs(user_papers, file) :
       \E w \in {upload_branch(World(user_papers), file, session.user_id,
                               env.delete_ok, env.fault)} :
          /\ Commit(w)
          /\ session' = [session EXCEPT !.user_papers = w.user_papers,
                                        !.arxiv_results = arxiv_results]
    /\ uploaded_file' = file
    /\ UNCHANGED <<res, chunkVars, citeVars, svcVars, last_login, last_loop>>

\* Search ArXiv pressed: search_papers has found the list found
RunSearch(found) ==
    /\ found # session.arxiv_results
    /\ Rerun(session.user_papers,
             IF found # <<>> THEN found ELSE session.arxiv_results,
             uploaded_file)

\* Remove Paper i pressed
RunRemove(i) ==
    /\ i \in 1..Len(session.user_papers)
    /\ Rerun(Pop(session.user_papers, i), session.arxiv_results, uploaded_file)

\* Add to Library pressed on search result i
RunAdd(i) ==
    /\ i \in 1..Len(session.arxiv_results)
    /\ LET paper == session.arxiv_results[i]
           existing_papers ==
               SelectSeq(session.user_papers, LAMBDA p : p.arxiv_id = paper.id)
       IN  Rerun(IF existing_papers = <<>>
                 THEN Append(session.user_papers, paper_info_arxiv(paper))
                 ELSE session.user_papers,
                 session.arxiv_results, uploaded_file)

\* a file chosen in the file_uploader, or the file taken out of it
RunChooseFile(file) ==
    /\ file # uploaded_file
    /\ Rerun(session.user_papers, session.arxiv_results, file)

MaxAsked == 1

\* a question sent: after the upload branch the pending papers are
\* processed, generate_response is called, the question and the answer are
\* appended to chat_history and the answer is saved by the chat service
RunAsk(prompt, persona, scenario, chat_ok) ==
    /\ session.authenticated
    /\ Len(messages) < MaxAsked
    /\ \E env \in UploadEnvs(session.user_papers, uploaded_file) :
       \E w1 \in {upload_branch(World(session.user_papers), uploaded_file,
                                session.user_id, env.delete_ok, env.fault)} :
          /\ w1.user_papers # <<>>
          /\ \E delete_ok \in BOOLEAN,
                outcome \in [PendingIds(w1.user_papers) -> Outcomes] :
             \E w \in {ProcessPending(w1, 1, session.user_id, delete_ok, outcome)} :
             \E r \in {generate_response(w.store, prompt, persona, session.user_id,
                                         scenario)} :
             \E m \in {save_message(messages, session.user_id, prompt, r.answer,
                                    persona, r.sources, None, Len(messages) + 1,
                                    chat_ok)} :
                /\ Commit(w)
                /\ last_loop' = [processed |-> w.processed, failed |-> w.failed,
                                 stored |-> StoredPapers(w.store, session.user_id)]
                /\ res' = r
                /\ messages' = m.messages
                /\ ret' = Ret("save_message", session.user_id, None, None, m.value,
                              <<>>, FALSE)
                /\ session' =
                     [session EXCEPT
                        !.user_papers = w.user_papers,
                        !.chat_history =
                            @ \o <<[role |-> "user", content |-> "q", sources |-> <<>>],
                                   [role |-> "assistant", content |-> r.answer,
                                    sources |-> r.sources]>>]
    /\ UNCHANGED <<chunkVars, citeVars, use_firebase, fb_users, uploaded_file, last_login>>

(***************************************************************************)
(* The store and its readers: uploads and reads in any order.              *)
(***************************************************************************)
SysInit ==
    /\ store = <<>>
    /\ ingester = FALSE
    /\ uuids = 0
    /\ ingested = <<>>
    /\ res = NoResult

ChunkIdle == pdf = <<>> /\ pages = <<>> /\ chunks = <<>> /\ pc = "idle"

CiteIdle == cin = <<>> /\ sources = <<>> /\ cpc = "idle"

Init == SysInit /\ ChunkIdle /\ CiteIdle /\ AppIdle /\ use_firebase = FALSE

DoUpload ==
    \E u \in Users, file \in Uploads, delete_ok \in BOOLEAN, fault \in IngestFaults :
        Upload(u, file, delete_ok, fault)

Next ==
    \/ DoUpload
    \/ \E q \in QueryTexts, u \in Users, k \in TopKs, backend_ok \in BOOLEAN :
          RetrieveRelevant(q, u, k, backend_ok)
    \/ \E q \in QueryTexts, u \in Users, k \in TopKs, backend_ok \in BOOLEAN :
          SearchSimilar(q, u, k, backend_ok)
    \/ \E p \in 1..MaxPapers, u \in Users, k \in TopKs, backend_ok \in BOOLEAN :
          RetrieveByPaper(p, u, k, backend_ok)
    \/ \E u \in Users, backend_ok \in BOOLEAN : GetUserPapers(u, backend_ok)
    \/ \E p \in 1..MaxPapers, u \in Users : GetPaperInfo(p, u)

Spec == Init /\ [][Next]_vars

(***************************************************************************)
(* Uploads that store_chunks completes, questions and by-paper retrievals  *)
(* in any order.                                                           *)
(***************************************************************************)
NextChain ==
    \/ \E u \in Users, file \in Uploads, delete_ok \in BOOLEAN :
          Upload(u, file, delete_ok, NoFault)
    \/ \E q \in QueryTexts, persona \in Personas, u \in Users, scenario \in Scenarios :
          GenerateResponse(q, persona, u, scenario)
    \/ \E p \in 1..MaxPapers, u \in Users, persona \in Personas, scenario \in Scenarios :
          GenerateSummary(p, u, persona, scenario)
    \/ \E q \in QueryTexts, u \in Users, persona \in Personas, scenario \in Scenarios :
          GenerateComparison(q, u, persona, scenario)
    \/ \E p \in 1..MaxPapers, u \in Users, k \in TopKs, backend_ok \in BOOLEAN :
          RetrieveByPaper(p, u, k, backend_ok)

SpecChain == Init /\ [][NextChain]_vars

(***************************************************************************)
(* The paper listing over a store that holds a long paper.                 *)
(***************************************************************************)
NextScan ==
    \/ \E u \in Users, file \in LongUploads, delete_ok \in BOOLEAN,
          fault \in {NoFault, [kind |-> "embed", at |-> 2]} :
          Upload(u, file, delete_ok, fault)
    \/ \E u \in Users : GetUserPapers(u, TRUE)

SpecScan == Init /\ [][NextScan]_vars

(***************************************************************************)
(* Extraction and chunking of one document, for every document of up to    *)
(* MaxPages pages.                                                         *)
(***************************************************************************)
InitChunk ==
    /\ SysInit /\ CiteIdle /\ AppIdle /\ use_firebase = FALSE
    /\ pdf \in { MkPdf(shapes) : shapes \in PdfShapes }
    /\ pages = <<>>
    /\ chunks = <<>>
    /\ pc = "opened"

ExtractText ==
    /\ pc = "opened"
    /\ pages' = extract_text_from_pdf(pdf)
    /\ pc' = "extracted"
    /\ UNCHANGED <<pdf, chunks, sysVars, citeVars, appVars>>

ExtractTextAlt(fails_at, fallback_ok) ==
    /\ pc = "opened"
    /\ LET r == alt_extract_text_from_pdf(pdf, fails_at, fallback_ok)
       IN  /\ pages' = r.pages
           /\ pc' = IF r.raised THEN "failed" ELSE "extracted"
    /\ UNCHANGED <<pdf, chunks, sysVars, citeVars, appVars>>

ChunkText ==
    /\ pc = "extracted"
    /\ chunks' = chunk_text(pages)
    /\ pc' = "chunked"
    /\ UNCHANGED <<pdf, pages, sysVars, citeVars, appVars>>

NextChunk ==
    \/ ExtractText
    \/ \E fails_at \in 0..Len(pdf), fallback_ok \in BOOLEAN :
          ExtractTextAlt(fails_at, fallback_ok)
    \/ ChunkText

SpecChunk == InitChunk /\ [][NextChunk]_vars

(***************************************************************************)
(* One call of _extract_sources, for every list of up to MaxCited chunks.  *)
(***************************************************************************)
MaxCited == 4

CitedChunks == [paper_title : Titles, page_number : {1, 2, 12}]

InitCite ==
    /\ SysInit /\ ChunkIdle /\ AppIdle /\ use_firebase = FALSE
    /\ cin \in UNION { [1..n -> CitedChunks] : n \in 0..MaxCited }
    /\ sources = <<>>
    /\ cpc = "called"

ExtractSources ==
    /\ cpc = "called"
    /\ sources' = _extract_sources(cin)
    /\ cpc' = "returned"
    /\ UNCHANGED <<cin, sysVars, chunkVars, appVars>>

NextCite == ExtractSources

SpecCite == InitCite /\ [][NextCite]_vars

(***************************************************************************)
(* The chat history: messages saved, conversations read and deleted.       *)
(***************************************************************************)
ConversationIds == {None, "c1", "c2"}

NextChat ==
    \/ \E u \in Users, conversation_id \in ConversationIds, backend_ok \in BOOLEAN :
          SaveMessage(u, "q", conversation_id, backend_ok)
    \/ \E u \in Users, conversation_id \in ConversationIds \ {None},
          backend_ok \in BOOLEAN :
          GetConversation(conversation_id, u, backend_ok)
    \/ \E u \in Users, conversation_id \in ConversationIds \ {None},
          backend_ok \in BOOLEAN :
          DeleteConversation(conversation_id, u, backend_ok)

SpecChat == Init /\ [][NextChat]_vars

(***************************************************************************)
(* The sidebar: sign-up, login and logout of two users with two passwords, *)
(* with Firebase and without.                                              *)
(***************************************************************************)
InitApp == SysInit /\ ChunkIdle /\ CiteIdle /\ AppIdle /\ use_firebase \in BOOLEAN

NextAuth ==
    \/ \E new_email \in Emails, new_password, confirm_password \in Passwords,
          backend_ok \in BOOLEAN :
          RunSignup(new_email, new_password, confirm_password, backend_ok)
    \/ \E email \in Emails, password \in Passwords, backend_ok \in BOOLEAN :
          RunLogin(email, password, backend_ok)
    \/ RunLogout

SpecAuth == InitApp /\ [][NextAuth]_vars

(***************************************************************************)
(* The application: one user who signs up, logs in and out, fills the      *)
(* library, uploads a file and asks questions.                             *)
(***************************************************************************)

\* what search_papers returns
SearchResults ==
    { <<>>,
      << CHOOSE a \in ArxivPapers : a.id = "2301.00001v1",
         CHOOSE b \in ArxivPapers : b.id = "2301.00002v1" >> }

\* the file the user has at hand
AppFiles == { f \in Uploads : f.name = <<"A", "_", "1">> }

AskQuery == MkText(0, << <<"x", 5>> >>)

NextApp ==
    \/ RunSignup("u1", "pw1", "pw1", TRUE)
    \/ \E email \in Emails, backend_ok \in BOOLEAN :
          RunLogin(email, "pw1", backend_ok)
    \/ RunLogout
    \/ \E found \in SearchResults : RunSearch(found)
    \/ \E i \in 1..MaxPapers : RunRemove(i)
    \/ \E i \in 1..MaxPapers : RunAdd(i)
    \/ \E file \in AppFiles \cup {NoFile} : RunChooseFile(file)
    \/ RunAsk(AskQuery, "Student", "ok", TRUE)

SpecApp == InitApp /\ [][NextApp]_vars

(***************************************************************************)
(* Properties.                                                             *)
(***************************************************************************)
SemanticSearches == {"retrieve_relevant_chunks", "search_similar_chunks"}

Retrievals == SemanticSearches \cup {"retrieve_by_paper_id", "get_user_papers"}

Generations == {"generate_response", "generate_summary", "generate_comparison"}

\* the stored object a retrieved chunk was projected from
StoredAs(item, o) ==
    /\ o.content = item.content
    /\ o.paper_id = item.paper_id
    /\ o.paper_title = item.paper_title
    /\ o.page_number = item.page_number
    /\ o.chunk_index = item.chunk_index

Owners == { store[i].user_id : i \in 1..Len(store) }

\* C1: user isolation of semantic search.  Whatever the uploads of several
\* users have put into the store, every chunk that retrieve_relevant_chunks
\* or search_similar_chunks returns for user U is a stored chunk whose
\* user_id is U.
C1_UserIsolation ==
    res.op \in SemanticSearches =>
        \A i \in 1..Len(res.out) :
            /\ res.out[i].user_id = res.user_id
            /\ \E j \in 1..Len(store) :
                  StoredAs(res.out[i], store[j]) /\ store[j].user_id = res.user_id

\* a semantic search that returned chunks from a store holding two users' chunks
C1_Witness ==
    /\ res.op \in SemanticSearches
    /\ res.out # <<>>
    /\ Owners = Users

\* C2: every read over the stored PaperChunk objects (semantic search,
\* by-paper lookup, paper listing and get_paper_info) is scoped by user_id:
\* what it returns for one user never includes a record owned by another user.
C2_ReadsScopedByUser ==
    /\ res.op \in SemanticSearches \cup {"retrieve_by_paper_id", "get_paper_info"} =>
          \A i \in 1..Len(res.out) : res.out[i].user_id = res.user_id
    /\ res.op = "get_user_papers" =>
          \A i \in 1..Len(res.out) :
              \E j \in 1..Len(store) :
                  /\ store[j].paper_id = res.out[i].paper_id
                  /\ store[j].user_id = res.user_id

\* C3: stored chunks are durable.  A chunk of a paper whose ingest_pdf call
\* returned a paper_id is still in the store, unmodified, after every later
\* step.
C3_ChunksDurable ==
    [][\A i \in 1..Len(store) :
          ~ingested[store[i].paper_id].raised =>
              \E j \in 1..Len(store') : store'[j] = store[i]]_vars

\* C4: ingestion is all-or-nothing per paper.  No chunk of an ingestion whose
\* store_chunks failed is in the store, and a paper_id in the store has all
\* the chunks chunk_text made for it.
C4_AllOrNothing ==
    \A i \in 1..Len(store) :
        /\ ~ingested[store[i].paper_id].raised
        /\ Len(WherePaper(store, store[i].paper_id)) = ingested[store[i].paper_id].n_chunks

\* the stored chunks a retrieval is asked for
Matching ==
    IF res.op = "retrieve_by_paper_id"
    THEN WherePaperUser(store, res.paper_id, res.user_id)
    ELSE WhereUser(store, res.user_id)

\* C5: a backend failure during a retrieval reaches the caller as an error
\* that differs from a retrieval that matched nothing: a retrieval returns
\* the empty list only when no stored chunk matches.
C5_EmptyOnlyWhenNoMatch ==
    (res.op \in Retrievals /\ res.out = <<>>) => Matching = <<>>

\* the number of pieces of a page's text that are not blank
NonBlankPieces(text) ==
    Cardinality({ k \in 1..Len(split_text(text)) : strip(split_text(text)[k]) # <<>> })

RECURSIVE SumNonBlank(_)
SumNonBlank(pgs) ==
    IF pgs = <<>> THEN 0 ELSE NonBlankPieces(Head(pgs).text) + SumNonBlank(Tail(pgs))

\* C6: chunk index contiguity.  chunk_text gives the N chunks it returns the
\* indices 0, 1, ..., N-1 in emission order; N is the number of pieces that
\* are not blank, over all pages, and the index runs on over page boundaries.
C6_IndexContiguity ==
    pc = "chunked" =>
        /\ \A i \in 1..Len(chunks) : chunks[i].chunk_index = i - 1
        /\ Len(chunks) = SumNonBlank(pages)

\* a document with several chunks on one page followed by a chunk of a later page
C6_Witness ==
    /\ pc = "chunked"
    /\ \E i \in 2..(Len(chunks) - 1) :
          /\ chunks[i - 1].page_number = chunks[i].page_number
          /\ chunks[i].page_number # chunks[i + 1].page_number

\* the characters of a text as a set of <<page, offset, character>>
CharsOf(t) == UNION { { <<t[k].p, t[k].o + d, t[k].c>> : d \in 0..(t[k].n - 1) } : k \in 1..Len(t) }

\* text t is one piece of consecutive characters
Contiguous(t) ==
    \A k \in 1..(Len(t) - 1) : t[k].p = t[k + 1].p /\ t[k].o + t[k].n = t[k + 1].o

\* every character of t is a character of text: each run of t lies inside a
\* run of text (the runs of a page text are maximal)
PieceOf(t, text) ==
    \A i \in 1..Len(t) :
        \E k \in 1..Len(text) :
            /\ t[i].c = text[k].c
            /\ t[i].p = text[k].p
            /\ text[k].o <= t[i].o
            /\ t[i].o + t[i].n <= text[k].o + text[k].n

\* C7: page attribution.  Every chunk of chunk_text carries the number of one
\* extracted page, and its content is a piece of consecutive characters of
\* that page's text only: no character of another page is in it.
C7_PageAttribution ==
    pc = "chunked" =>
        \A i \in 1..Len(chunks) :
            \E k \in 1..Len(pages) :
                /\ pages[k].page_number = chunks[i].page_number
                /\ Contiguous(chunks[i].content)
                /\ PieceOf(chunks[i].content, pages[k].text)

\* a page split into chunks that overlap, followed by a chunk of the next page
C7_Witness ==
    /\ pc = "chunked"
    /\ \E i \in 2..(Len(chunks) - 1) :
          /\ chunks[i - 1].page_number = chunks[i].page_number
          /\ CharsOf(chunks[i - 1].content) \cap CharsOf(chunks[i].content) # {}
          /\ chunks[i].page_number < chunks[i + 1].page_number

\* the positions of the chunks that are the first with their (title, page)
FirstOccurrences(chs) ==
    { i \in 1..Len(chs) :
        \A j \in 1..(i - 1) :
            <<chs[j].paper_title, chs[j].page_number>>
                # <<chs[i].paper_title, chs[i].page_number>> }

\* C8: citation deduplication.  _extract_sources returns one {paper, page}
\* entry for each distinct (paper_title, page_number) pair of the chunks, no
\* pair twice and no two pairs merged, in the order of first occurrence.
C8_CitationDedup ==
    cpc = "returned" =>
        LET first == SortedSeq(FirstOccurrences(cin))
        IN  /\ Len(sources) = Len(first)
            /\ \A k \in 1..Len(first) :
                  sources[k] = [paper |-> cin[first[k]].paper_title,
                                page |-> cin[first[k]].page_number]

\* the chunks (A,1), (A,1), (A,2), (B,1) give the sources (A,1), (A,2), (B,1)
C8_Witness ==
    /\ cpc = "returned"
    /\ cin = << [paper_title |-> <<"A">>, page_number |-> 1],
                [paper_title |-> <<"A">>, page_number |-> 1],
                [paper_title |-> <<"A">>, page_number |-> 2],
                [paper_title |-> <<"B">>, page_number |-> 1] >>
    /\ sources = << [paper |-> <<"A">>, page |-> 1],
                    [paper |-> <<"A">>, page |-> 2],
                    [paper |-> <<"B">>, page |-> 1] >>

Sentinel(op) ==
    CASE op = "generate_response" -> "no_relevant_information"
      [] op = "generate_summary" -> "paper_not_found"
      [] op = "generate_comparison" -> "no_information_for_comparison"

\* C9: empty-context short circuit.  When the retrieval of a generate_ call
\* yields no chunk, the call returns its fixed sentinel answer with no
\* sources and the LLM is not invoked; the LLM is invoked only after a
\* retrieval that returned at least one chunk.
C9_EmptyContextShortCircuit ==
    res.op \in Generations =>
        /\ res.out = <<>> =>
              res.answer = Sentinel(res.op) /\ res.sources = <<>> /\ ~res.llm
        /\ res.llm => Len(res.out) >= 1

\* a question of a user who has no chunk in a store that holds chunks
C9_Witness ==
    /\ res.op \in Generations
    /\ res.out = <<>>
    /\ ~res.raised
    /\ store # <<>>
    /\ res.answer = Sentinel(res.op)

\* C10: result size of semantic search.  retrieve_relevant_chunks(query, U,
\* top_k) returns exactly min(top_k, number of stored chunks of U) chunks.
C10_ResultSize ==
    res.op = "retrieve_relevant_chunks" =>
        Len(res.out) = Min(res.top_k, Len(WhereUser(store, res.user_id)))

\* the ingest_pdf call made last
LastIngest == ingested[Len(ingested)]

\* the stored chunks written by the c-th ingest_pdf call
WrittenBy(c) == SelectSeq(store, LAMBDA o : o.upload_date = c)

\* C11: extraction failure is terminal, with no partial ingestion.  An
\* ingest_pdf call whose PDF gives no non-blank page (or whose chunking gives
\* no chunk) raises, returns no paper_id, has written no chunk and has issued
\* no embed_query call.
C11_ExtractionFailureTerminal ==
    /\ \A c \in 1..Len(ingested) :
          (ingested[c].n_pages = 0 \/ ingested[c].n_chunks = 0) =>
              /\ ingested[c].raised
              /\ ingested[c].n_embed = 0
              /\ WrittenBy(c) = <<>>
    /\ (res.op = "ingest_pdf" /\ LastIngest.n_chunks = 0) =>
          res.raised /\ res.paper_id = 0

\* a PDF of blank pages only was uploaded while the store held another paper
C11_Witness ==
    /\ res.op = "ingest_pdf"
    /\ LastIngest.n_pages = 0
    /\ res.raised
    /\ store # <<>>

\* C13: fresh paper identity.  No two ingest_pdf calls draw the same
\* paper_id, also when they ingest the same file for the same user, and every
\* stored chunk carries the paper_id of the call that wrote it.
C13_FreshPaperId ==
    /\ \A a, b \in 1..Len(ingested) :
          a # b => ingested[a].paper_id # ingested[b].paper_id
    /\ \A i \in 1..Len(store) :
          store[i].paper_id = ingested[store[i].upload_date].paper_id

\* the same file ingested twice by one user, both papers in the store
C13_Witness ==
    \E i, j \in 1..Len(store) :
        /\ store[i].upload_date # store[j].upload_date
        /\ store[i].user_id = store[j].user_id
        /\ store[i].paper_title = store[j].paper_title
        /\ store[i].content = store[j].content
        /\ store[i].paper_id # store[j].paper_id
        /\ ~ingested[store[i].upload_date].raised
        /\ ~ingested[store[j].upload_date].raised

\* C17: an embedding failure aborts the ingestion.  When embed_query fails
\* for a chunk, ingest_pdf raises and returns no paper_id, no embed_query call
\* follows the failed one, and neither the failing chunk nor a chunk after it
\* is written.
C17_EmbeddingFailureAborts ==
    /\ \A c \in 1..Len(ingested) :
          ingested[c].failed_at > 0 =>
              /\ ingested[c].raised
              /\ ingested[c].n_embed = ingested[c].failed_at
              /\ \A i \in 1..Len(store) :
                    store[i].upload_date = c =>
                        store[i].chunk_index < ingested[c].failed_at - 1
    /\ (res.op = "ingest_pdf" /\ LastIngest.failed_at > 0) =>
          res.raised /\ res.paper_id = 0

\* the embedding of the second of four chunks failed
C17_Witness ==
    /\ res.op = "ingest_pdf"
    /\ LastIngest.failed_at = 2
    /\ LastIngest.n_chunks = 4
    /\ res.raised
    /\ Len(WrittenBy(Len(ingested))) = 1

\* the physical pages of the opened document that are not blank
NonBlankPages == { p \in 1..Len(pdf) : strip(pdf[p]) # <<>> }

\* C12: blank-page handling.  extract_text_from_pdf emits exactly the pages
\* whose text is not empty after trimming, in physical order, each with its
\* 1-based physical position as page_number and its trimmed text: the page
\* numbers are strictly increasing and no emitted text is empty.
C12_BlankPageHandling ==
    pc \in {"extracted", "chunked"} =>
        LET kept == SortedSeq(NonBlankPages)
        IN  /\ Len(pages) = Len(kept)
            /\ \A k \in 1..Len(pages) :
                  /\ pages[k].page_number = kept[k]
                  /\ pages[k].text = strip(pdf[kept[k]])
                  /\ pages[k].text # <<>>
            /\ \A k \in 1..(Len(pages) - 1) :
                  pages[k].page_number < pages[k + 1].page_number

\* C14: paper listing completeness.  get_user_papers(U) lists a paper_id if
\* and only if a stored chunk with user_id U references that paper_id,
\* however many papers and chunks the user has stored.
C14_ListingComplete ==
    res.op = "get_user_papers" =>
        { res.out[i].paper_id : i \in 1..Len(res.out) }
            = { store[j].paper_id : j \in { j \in 1..Len(store) : store[j].user_id = res.user_id } }

\* the chunks the query of get_user_papers scans for the user of the call
Scanned == Limit(WhereUser(store, res.user_id), scan_limit)

\* k is the position of the first scanned chunk of paper p
FirstScanned(k, p) ==
    /\ k \in 1..Len(Scanned)
    /\ Scanned[k].paper_id = p
    /\ \A h \in 1..(k - 1) : Scanned[h].paper_id # p

\* C15: paper listing deduplication.  get_user_papers returns no paper_id
\* twice, the papers come in the order in which they first appear in the
\* scan, and each is reported with the title and upload_date of its first
\* scanned chunk.
C15_ListingDedup ==
    res.op = "get_user_papers" =>
        /\ \A i, j \in 1..Len(res.out) :
              i # j => res.out[i].paper_id # res.out[j].paper_id
        /\ \A i \in 1..Len(res.out) :
              \E k \in 1..Len(Scanned) :
                  /\ FirstScanned(k, res.out[i].paper_id)
                  /\ res.out[i].paper_title = Scanned[k].paper_title
                  /\ res.out[i].upload_date = Scanned[k].upload_date
        /\ \A i, j \in 1..Len(res.out) :
              i < j =>
                  \A k, m \in 1..Len(Scanned) :
                      (FirstScanned(k, res.out[i].paper_id)
                       /\ FirstScanned(m, res.out[j].paper_id)) => k < m

\* a listing of two papers out of a scan with several chunks of each
C15_Witness ==
    /\ res.op = "get_user_papers"
    /\ Len(res.out) = 2
    /\ \A i \in 1..2 :
          Len(SelectSeq(Scanned, LAMBDA o : o.paper_id = res.out[i].paper_id)) > 1

\* paper p is stored, and for another user than u
OwnedByOther(p, u) ==
    /\ \E j \in 1..Len(store) : store[j].paper_id = p
    /\ \A j \in 1..Len(store) : store[j].paper_id = p => store[j].user_id # u

\* C16: single-paper retrieval is an exact match on both keys.
\* retrieve_by_paper_id(P, U, top_k), called directly or by generate_summary,
\* returns at most top_k chunks, each a stored chunk with paper_id P and
\* user_id U; when P is a paper of another user the result is empty and
\* generate_summary gives its "paper not found" answer without invoking the
\* LLM.
C16_ByPaperExactMatch ==
    res.op \in {"retrieve_by_paper_id", "generate_summary"} =>
        /\ Len(res.out) <= res.top_k
        /\ \A i \in 1..Len(res.out) :
              /\ res.out[i].paper_id = res.paper_id
              /\ res.out[i].user_id = res.user_id
              /\ \E j \in 1..Len(store) :
                    StoredAs(res.out[i], store[j]) /\ store[j].user_id = res.user_id
        /\ OwnedByOther(res.paper_id, res.user_id) =>
              /\ res.out = <<>>
              /\ res.op = "generate_summary" =>
                    res.answer = "paper_not_found" /\ ~res.llm /\ res.sources = <<>>

\* a summary asked for a paper that another user has stored
C16_Witness ==
    /\ res.op = "generate_summary"
    /\ OwnedByOther(res.paper_id, res.user_id)
    /\ ~res.raised
    /\ res.answer = "paper_not_found"

\* C18: persona fallback.  The prompt that generate_response,
\* generate_summary and generate_comparison send to the LLM starts with the
\* instruction block of the persona asked for when that is Student, Professor
\* or General User, and with the General User block for any other persona.
C18_PersonaFallback ==
    (res.op \in Generations /\ res.llm) =>
        /\ res.persona = "Student" => res.prompt = "Student"
        /\ res.persona = "Professor" => res.prompt = "Professor"
        /\ res.persona \notin {"Student", "Professor"} => res.prompt = "General User"

\* an answer generated for a persona that has no block of its own
C18_Witness ==
    /\ res.op \in Generations
    /\ res.llm
    /\ ~res.raised
    /\ res.persona = "Researcher"
    /\ res.prompt = "General User"

\* C19: retrieval is read-only.  A call of retrieve_relevant_chunks,
\* retrieve_by_paper_id, get_user_papers or search_similar_chunks leaves the
\* stored chunks as they are, so retrievals of several users or several
\* queries see the same store in whatever order they run.
C19_RetrievalReadOnly ==
    [][res'.op \in Retrievals => store' = store /\ ingested' = ingested]_vars

\* a retrieval that returned chunks from a store holding two users' chunks
C19_Witness ==
    /\ res.op = "retrieve_by_paper_id"
    /\ res.out # <<>>
    /\ Owners = Users
    /\ Len(store) > Len(res.out)

\* the document of the scenario: two pages, 1500 and 300 characters of text
Scenario ==
    /\ Len(pdf) = 2
    /\ Len(pages) = 2
    /\ pages[1].page_number = 1 /\ TextLen(pages[1].text) = 1500
    /\ pages[2].page_number = 2 /\ TextLen(pages[2].text) = 300

\* the chunks taken from page p
ChunksOfPage(p) == SelectSeq(chunks, LAMBDA c : c.page_number = p)

HasWhitespace(t) == \E k \in 1..Len(t) : IsSpace(t[k])

\* C20 as stated: the document of the scenario is chunked into exactly 3
\* chunks, two from page 1 with the indices 0 and 1 and one from page 2 with
\* the index 2, and the chunk of page 2 holds no text of page 1.
C20_ChunkingScenario ==
    (pc = "chunked" /\ Scenario) =>
        /\ Len(chunks) = 3
        /\ chunks[1].page_number = 1 /\ chunks[1].chunk_index = 0
        /\ chunks[2].page_number = 1 /\ chunks[2].chunk_index = 1
        /\ chunks[3].page_number = 2 /\ chunks[3].chunk_index = 2
        /\ CharsOf(chunks[3].content) \cap CharsOf(pdf[1]) = {}

\* C20 as amended: page 1 of the scenario gives n >= 2 chunks with the
\* indices 0 .. n-1, exactly 2 when its text holds no whitespace; page 2 gives
\* one chunk, with the index n, and that chunk holds no text of page 1.
C20_ChunkingScenarioAmended ==
    (pc = "chunked" /\ Scenario) =>
        LET n == Len(ChunksOfPage(1))
        IN  /\ n >= 2
            /\ ~HasWhitespace(pages[1].text) => n = 2
            /\ Len(chunks) = n + 1
            /\ \A i \in 1..n :
                  chunks[i].page_number = 1 /\ chunks[i].chunk_index = i - 1
            /\ chunks[n + 1].page_number = 2 /\ chunks[n + 1].chunk_index = n
            /\ CharsOf(chunks[n + 1].content) \cap CharsOf(pdf[1]) = {}
            /\ CharsOf(chunks[n + 1].content) \subseteq CharsOf(pdf[2])

\* 1500 characters without whitespace, then 300: the chunks are the
\* characters 1..1000 and 801..1500 of page 1 and the text of page 2
C20_Witness ==
    /\ pc = "chunked"
    /\ Scenario
    /\ ~HasWhitespace(pages[1].text)
    /\ Len(chunks) = 3
    /\ TextLen(chunks[1].content) = 1000
    /\ chunks[2].content[1].o = 801
    /\ TextLen(chunks[2].content) = 700
    /\ chunks[3].page_number = 2

\* C23: one embedding and one write per chunk.  A store_chunks call that
\* completes without error has issued one embed_query call per chunk, has
\* written the chunks in batches of at most batch_size consecutive chunks
\* (as many batches as that takes), and has written exactly one object per
\* chunk, in chunk_index order, with the chunk's content and the vector
\* computed from that content.
C23_OneEmbeddingOneWrite ==
    (res.op = "ingest_pdf" /\ ~res.raised) =>
        \E w \in {WrittenBy(Len(ingested))} :
            /\ LastIngest.n_embed = LastIngest.n_chunks
            /\ LastIngest.n_batches
                  = (LastIngest.n_chunks + batch_size - 1) \div batch_size
            /\ Len(w) = LastIngest.n_chunks
            /\ \E file \in Uploads \cup LongUploads :
                  /\ file.name = w[1].paper_title
                  /\ \E chs \in {ChunkedPages[file]} :
                        \A i \in 1..Len(w) :
                            /\ w[i].chunk_index = i - 1
                            /\ w[i].content = chs[i].content
                            /\ w[i].page_number = chs[i].page_number
                            /\ w[i].vector = Embed(chs[i].content)

\* a paper of 1000 chunks was stored in 20 batches
C23_Witness ==
    /\ res.op = "ingest_pdf"
    /\ ~res.raised
    /\ LastIngest.n_chunks > batch_size
    /\ LastIngest.n_batches > 1
    /\ Len(WrittenBy(Len(ingested))) = LastIngest.n_chunks

\* the pages given to chunk_text are in increasing page order
PagesIncreasing ==
    \A k \in 1..(Len(pages) - 1) : pages[k].page_number < pages[k + 1].page_number

\* the pieces of a page's text that become chunks, in the order of the splitter
PiecesOf(text) ==
    LET sp == split_text(text)
    IN  SelectSeq([j \in 1..Len(sp) |-> strip(sp[j])], LAMBDA t : t # <<>>)

\* C24: reading order.  For pages in increasing page order, page_number does
\* not decrease along the chunks of chunk_text, the chunks of one page are
\* next to each other, and they are the pieces of that page's text in the
\* order in which the splitter returned them.
C24_ReadingOrder ==
    (pc = "chunked" /\ PagesIncreasing) =>
        /\ \A i \in 1..(Len(chunks) - 1) :
              chunks[i].page_number <= chunks[i + 1].page_number
        /\ \A i, j \in 1..Len(chunks) :
              (i < j /\ chunks[i].page_number = chunks[j].page_number) =>
                  \A h \in i..j : chunks[h].page_number = chunks[i].page_number
        /\ \A k \in 1..Len(pages) :
              \E of_page \in {ChunksOfPage(pages[k].page_number)} :
              \E pieces \in {PiecesOf(pages[k].text)} :
                  /\ Len(of_page) = Len(pieces)
                  /\ \A j \in 1..Len(pieces) : of_page[j].content = pieces[j]
                  /\ \A j \in 1..(Len(of_page) - 1) :
                        of_page[j].chunk_index + 1 = of_page[j + 1].chunk_index

\* two pages in page order, each cut into several chunks
C24_Witness ==
    /\ pc = "chunked"
    /\ PagesIncreasing
    /\ Len(pages) >= 2
    /\ \A k \in 1..Len(pages) : Len(ChunksOfPage(pages[k].page_number)) >= 2

\* C27: generation never raises and never cites on failure.  A generate_
\* call always returns an answer (its sentinel, the LLM's answer or the
\* error message) together with a list of sources; the list is empty when
\* the retrieval or the LLM call raised, it is non-empty only when the LLM
\* call returned, and every source is the (paper_title, page_number) of a
\* chunk retrieved in that call.
C27_NoCitationOnFailure ==
    res.op \in Generations =>
        /\ res.answer \in {Sentinel(res.op), "llm", "error"}
        /\ res.raised => res.sources = <<>> /\ res.answer # "llm"
        /\ res.sources # <<>> => res.llm /\ ~res.raised /\ res.answer = "llm"
        /\ \A k \in 1..Len(res.sources) :
              \E i \in 1..Len(res.out) :
                  /\ res.out[i].paper_title = res.sources[k].paper
                  /\ res.out[i].page_number = res.sources[k].page

\* the LLM call raised after chunks of several pages had been retrieved
C27_Witness ==
    /\ res.op \in Generations
    /\ res.raised
    /\ res.llm
    /\ res.answer = "error"
    /\ res.sources = <<>>
    /\ \E i, j \in 1..Len(res.out) : res.out[i].page_number # res.out[j].page_number

\* C22: conversation deletion takes effect.  After delete_conversation(C, U)
\* has returned True, get_conversation(C, U) returns no message.
C22_DeletionTakesEffect ==
    (ret.op = "delete_conversation" /\ ret.value) =>
        get_conversation(messages, ret.conversation_id, ret.user_id, TRUE) = <<>>

\* C21: authentication calls are total boolean functions.  signup and login
\* return True or False and never raise, with Firebase initialised and in
\* the fallback to simple in-memory authentication.
C21_AuthNeverRaises ==
    ret.op \in {"signup", "login"} => ~ret.raised /\ ret.value \in BOOLEAN

\* C26: login checks the password.  login(email, password) returns True only
\* if an account with that email exists and password is the one the account
\* was created with; a wrong password for an existing email gives False.
C26_LoginChecksPassword ==
    ret.op = "login" =>
        /\ ret.value =>
              /\ ret.user_id \in DOMAIN fb_users
              /\ fb_users[ret.user_id] = ret.password
        /\ (ret.user_id \in DOMAIN fb_users /\ fb_users[ret.user_id] # ret.password) =>
              ~ret.raised /\ ret.value = FALSE

\* C28: session invariant of the UI.  authenticated is True exactly when
\* user_id is set, and then user_id is the email of the last successful
\* login; after a logout (and before the first login) user_id is None and
\* chat_history, user_papers and arxiv_results are empty.
C28_SessionInvariant ==
    /\ session.authenticated <=> session.user_id # None
    /\ session.authenticated => session.user_id = last_login
    /\ ~session.authenticated =>
          /\ session.user_id = None
          /\ session.chat_history = <<>>
          /\ session.user_papers = <<>>
          /\ session.arxiv_results = <<>>

\* a user who had a paper ingested and a question answered has logged out,
\* and a login has failed since
C28_Witness ==
    /\ ~session.authenticated
    /\ last_login # None
    /\ messages # <<>>
    /\ ingested # <<>>
    /\ ret.op = "login"
    /\ ~ret.value
    /\ session = DefaultSession

\* C25: single store client.  Over any run of the application the vector
\* store client is constructed once and reused; no upload and no question
\* constructs another client or runs the schema setup again.
C25_SingleStoreClient ==
    clients <= 1 /\ schema_runs <= 1

\* C29: the library has no duplicates.  user_papers never holds two entries
\* with the same arxiv_id nor two entries with the same uploaded filename,
\* and no file whose filename is in the library is ingested.
C29_NoDuplicates ==
    /\ \A i, j \in 1..Len(session.user_papers) :
          i < j =>
             /\ ~(/\ session.user_papers[i].arxiv_id # None
                  /\ session.user_papers[i].arxiv_id = session.user_papers[j].arxiv_id)
             /\ ~(/\ session.user_papers[i].filename # <<>>
                  /\ session.user_papers[i].filename = session.user_papers[j].filename)
    /\ \A k \in 1..Len(ingested) : ~ingested[k].in_library

\* the uploaded file is in the library and still in the file_uploader, a
\* paper was added from arXiv in a later run, and the file was ingested once
C29_Witness ==
    /\ uploaded_file # NoFile
    /\ InLibrary(session.user_papers, uploaded_file)
    /\ Len(ingested) = 1
    /\ \E i, j \in 1..Len(session.user_papers) :
          /\ i < j
          /\ session.user_papers[i].filename = uploaded_file.name
          /\ session.user_papers[j].arxiv_id # None

\* C30: pending papers are processed before the answer.  When the answer to
\* a question is generated, the chunks of every paper that the pending-paper
\* loop of that run has processed are in the store for the user, and the
\* papers the loop could not process are still pending.
C30_ProcessedRetrievable ==
    res.op = "generate_response" =>
        \A k \in 1..Len(last_loop.processed) :
            last_loop.processed[k] \in last_loop.stored

====
